---- MODULE Spec2Model ----
(***************************************************************************)
(* A model of mp::basic_inplace_string<CharT, MaxSize, Traits>             *)
(* (src/src/include/mp/inplace_string.h): a fixed-capacity string whose    *)
(* storage is an array of MaxSize + 1 characters and whose length is       *)
(* stored as MaxSize - size() in the last slot.                            *)
(*                                                                         *)
(* A buffer is a function 0..MaxSize -> character code.  Every member      *)
(* function is an operator from the buffer (and its arguments) to a        *)
(* result [buf, err]; the actions apply them to the instance `chars`       *)
(* and record the call.  Spec follows one instance and keeps its previous  *)
(* buffer in `pre`; SpecPair, SpecView and SpecSub follow two instances,   *)
(* `chars` and `other`: mutation with swap and copy, the relational        *)
(* operators, and substrings of another instance.  SpecSelf follows one    *)
(* instance that is assigned substrings of itself.                         *)
(***************************************************************************)
EXTENDS Integers, Sequences, FiniteSets

\* ---- bounds ------------------------------------------------------------
\* The template parameter MaxSize (the capacity) of the instances modelled.
MaxSize == 3
\* Width in bits of size_type.  std::size_t has 64 bits; the model keeps
\* the wrap-around of unsigned arithmetic at a width TLC can enumerate.
SizeBits == 5

\* ---- character and size domains ----------------------------------------
\* Sample of CharT values: the zero character and two others, 1 < 2.
Char == {0, 1, 2}
NonZeroChar == Char \ {0}
\* Bits of impl_size_type for a one-byte CharT (std::uint8_t).
ImplBits == 8
SizeMod == 2 ^ SizeBits
npos == SizeMod - 1
Index == 0 .. MaxSize
\* Arguments of type size_type that the actions try: every length up to
\* one past the capacity, and the largest value of the type.
SizeArgs == (0 .. (MaxSize + 1)) \cup {npos}
\* Character sequences handed over through a pointer and a count are
\* sampled over the zero character and one other.
SeqChar == {0, 1}
SeqsUpTo(n) == UNION {[1 .. k -> SeqChar] : k \in 0 .. n}
CStrsUpTo(n) == UNION {[1 .. k -> NonZeroChar] : k \in 0 .. n}
Min(a, b) == IF a < b THEN a ELSE b

\* A pointer argument: either memory outside the instance holding `seq`,
\* or a pointer into the instance's own buffer at offset `off`.
Ext(s) == [self |-> FALSE, off |-> 0, seq |-> s]
Self(o) == [self |-> TRUE, off |-> o, seq |-> <<>>]
Deref(src, b, j) == IF src.self THEN b[src.off + j] ELSE src.seq[j + 1]

R(b, e) == [buf |-> b, err |-> e]

\* ---- the member functions ----------------------------------------------
impl_size_type(v) == v % (2 ^ ImplBits)

max_size == MaxSize

size(b) == max_size - impl_size_type(b[MaxSize])

\* Mutant of set_size: the terminator is not written.
set_size_no_terminator(b, s) ==
  IF s > max_size THEN R(b, "length_error")
  ELSE R([b EXCEPT ![MaxSize] = impl_size_type(max_size - s)], "none")

\* Mutant of set_size: the size slot is written before the check.
set_size_write_first(b, s) ==
  IF s > max_size THEN R([b EXCEPT ![MaxSize] = impl_size_type(max_size - s)], "length_error")
  ELSE LET b1 == [b EXCEPT ![s] = 0]
       IN  R([b1 EXCEPT ![MaxSize] = impl_size_type(max_size - s)], "none")

\* size(size_type s): the length setter.
set_size(b, s) ==
  IF s > max_size THEN R(b, "length_error")
  ELSE LET b1 == [b EXCEPT ![s] = 0]
       IN  R([b1 EXCEPT ![MaxSize] = impl_size_type(max_size - s)], "none")

\* Traits::assign(p, n, c) with p = data() + off.
traits_assign(b, off, n, c) ==
  [i \in Index |-> IF i >= off /\ i < off + n THEN c ELSE b[i]]

\* Traits::copy(p, s, n) with p = data() + off.
traits_copy(b, off, src, n) ==
  [i \in Index |-> IF i >= off /\ i < off + n THEN Deref(src, b, i - off) ELSE b[i]]

RECURSIVE ScanZero(_, _)
ScanZero(s, i) ==
  IF i > Len(s) THEN i - 1
  ELSE IF s[i] = 0 THEN i - 1 ELSE ScanZero(s, i + 1)
\* Traits::length(s) on the memory s: the number of characters before the
\* first zero character.
traits_length(s) == ScanZero(s, 1)

\* Mutant of resize: the old length is read after size(n), so nothing is
\* filled.
resize_no_fill(b, n, c) == set_size(b, n)

resize(b, n, c) ==
  LET sz == size(b)
      r  == set_size(b, n)
  IN  IF r.err # "none" THEN r
      ELSE IF n > sz THEN R(traits_assign(r.buf, sz, n - sz, c), "none")
      ELSE r

resize1(b, n) == resize(b, n, 0)

clear(b) == set_size(b, 0).buf

\* Mutant of at: the bound check is off by one.
at_off_by_one(b, pos) ==
  IF pos > size(b) THEN [ref |-> 0, err |-> "out_of_range"]
  ELSE [ref |-> pos, err |-> "none"]

\* at(pos): the reference returned is the position it refers to.
at(b, pos) ==
  IF pos >= size(b) THEN [ref |-> 0, err |-> "out_of_range"]
  ELSE [ref |-> pos, err |-> "none"]

\* Mutant of append: the characters are copied to data(), not data() + sz.
append_at_front(b, src, n) ==
  LET sz == size(b)
      r  == set_size(b, (sz + n) % SizeMod)
  IN  IF r.err # "none" THEN r
      ELSE R(traits_copy(r.buf, 0, src, n), "none")

\* append(const_pointer s, size_type n)
append(b, src, n) ==
  LET sz == size(b)
      r  == set_size(b, (sz + n) % SizeMod)
  IN  IF r.err # "none" THEN r
      ELSE R(traits_copy(r.buf, sz, src, n), "none")

\* append(size_type n, value_type c)
append_fill(b, n, c) == resize(b, (size(b) + n) % SizeMod, c)

push_back(b, c) == append_fill(b, 1, c)

\* assign(const_pointer s, size_type count) noexcept: a count above MaxSize
\* fails the assertion, or, with assertions compiled out, throws out of a
\* noexcept function; the program is terminated either way.
assign(b, src, count) ==
  IF count > MaxSize THEN R(b, "abort")
  ELSE R(traits_copy(set_size(b, count).buf, 0, src, count), "none")

\* assign(size_type count, CharT ch): the assertions abort, or, compiled
\* out (ndebug), leave size(count) to throw.
assign_fill(b, count, ch, ndebug) ==
  IF ~ndebug /\ (count >= npos \/ count > MaxSize) THEN R(b, "abort")
  ELSE LET r == set_size(b, count)
       IN  IF r.err # "none" THEN r
           ELSE R(traits_assign(r.buf, 0, count, ch), "none")

\* begin() .. end(): the characters of the instance.
Range(b) == [i \in 1 .. size(b) |-> b[i - 1]]

\* Mutant of to_string: the string is built from data() as a C string.
to_string_c_str(b) == SubSeq([i \in 1 .. MaxSize + 1 |-> b[i - 1]], 1,
                             traits_length([i \in 1 .. MaxSize + 1 |-> b[i - 1]]))

to_string(b) == Range(b)

\* The memory data() / c_str() points to, as a C-string consumer sees it.
Memory(b) == [i \in 1 .. MaxSize + 1 |-> b[i - 1]]
\* What reading data() up to the first zero character yields.
CStrRead(b) == SubSeq(Memory(b), 1, traits_length(Memory(b)))
\* operator<<(os, v) is os << v.data().
stream_out(b) == CStrRead(b)

\* std::basic_string_view::substr(pos, n) on a view of len characters:
\* the offset and length of the result, or the exception.
substr(len, pos, n) ==
  IF pos > len THEN [off |-> 0, len |-> 0, err |-> "out_of_range"]
  ELSE [off |-> pos, len |-> Min(n, len - pos), err |-> "none"]

\* Mutant of assign_sub: the count is dropped, as in substr(pos).
assign_sub_no_count(b, str, pos, count) ==
  LET sv == substr(size(str), pos, npos)
  IN  IF sv.err # "none" THEN R(b, sv.err)
      ELSE assign(b, Ext(SubSeq(Range(str), sv.off + 1, sv.off + sv.len)), sv.len)

\* assign(str, pos, count) with str another instance: the view of str is
\* cut by substr and handed to assign(sv.data(), sv.size()).
assign_sub(b, str, pos, count) ==
  LET sv == substr(size(str), pos, count)
  IN  IF sv.err # "none" THEN R(b, sv.err)
      ELSE assign(b, Ext(SubSeq(Range(str), sv.off + 1, sv.off + sv.len)), sv.len)

\* std::equal(first1, last1, first2, last2) on random-access ranges.
RECURSIVE EqualFrom(_, _, _)
EqualFrom(r1, r2, i) ==
  IF i > Len(r1) THEN TRUE
  ELSE IF r1[i] # r2[i] THEN FALSE ELSE EqualFrom(r1, r2, i + 1)
std_equal(r1, r2) == IF Len(r1) # Len(r2) THEN FALSE ELSE EqualFrom(r1, r2, 1)

\* std::lexicographical_compare(first1, last1, first2, last2).
RECURSIVE LexFrom(_, _, _)
LexFrom(r1, r2, i) ==
  IF i > Len(r1) \/ i > Len(r2) THEN i > Len(r1) /\ i <= Len(r2)
  ELSE IF r1[i] < r2[i] THEN TRUE
  ELSE IF r2[i] < r1[i] THEN FALSE
  ELSE LexFrom(r1, r2, i + 1)
lexicographical_compare(r1, r2) == LexFrom(r1, r2, 1)

\* Mutant of operator_eq: the arrays are compared, not the ranges.
operator_eq_arrays(lhs, rhs) == lhs = rhs

\* The relational operators between two instances of equal capacity.
operator_eq(lhs, rhs) == std_equal(Range(lhs), Range(rhs))
operator_ne(lhs, rhs) == ~operator_eq(lhs, rhs)
operator_lt(lhs, rhs) == lexicographical_compare(Range(lhs), Range(rhs))
operator_le(lhs, rhs) == ~operator_lt(rhs, lhs)
operator_gt(lhs, rhs) == operator_lt(rhs, lhs)
operator_ge(lhs, rhs) == ~operator_lt(lhs, rhs)

\* The range s .. s + Traits::length(s) of a null-terminated sequence s.
CRange(mem) == SubSeq(mem, 1, traits_length(mem))
\* Comparison with a c-style string, the instance on the right or the left.
operator_eq_cstr_lhs(s, rhs) == std_equal(CRange(s), Range(rhs))
operator_eq_cstr_rhs(lhs, s) == std_equal(Range(lhs), CRange(s))
operator_lt_cstr_lhs(s, rhs) == lexicographical_compare(CRange(s), Range(rhs))
operator_lt_cstr_rhs(lhs, s) == lexicographical_compare(Range(lhs), CRange(s))

\* ---- state -------------------------------------------------------------
VARIABLES chars, other, pre, op, arg, err, ret
vars == <<chars, other, pre, op, arg, err, ret>>

NoArg == [n |-> 0, c |-> 0, pos |-> 0, s |-> <<>>]
Arg(n, c, pos, s) == [n |-> n, c |-> c, pos |-> pos, s |-> s]

\* The default constructor runs clear() on an uninitialised array.
Constructed == {clear(g) : g \in [Index -> Char]}

Init ==
  /\ chars \in Constructed
  /\ other = clear([i \in Index |-> 0])
  /\ pre = chars
  /\ op = "init"
  /\ arg = NoArg
  /\ err = "none"
  /\ ret = <<>>

\* One call on the instance `chars`: r is the [buf, err] the call produced.
Call(name, a, r, v) ==
  /\ pre' = chars
  /\ chars' = r.buf
  /\ op' = name
  /\ arg' = a
  /\ err' = r.err
  /\ ret' = v
  /\ UNCHANGED other

Resize(n, c) == Call("resize", Arg(n, c, 0, <<>>), resize(chars, n, c), <<>>)

Resize1(n) == Call("resize1", Arg(n, 0, 0, <<>>), resize1(chars, n), <<>>)

Clear == Call("clear", NoArg, R(clear(chars), "none"), <<>>)

\* assign(s, count) from memory outside the instance.
AssignPtr(s) == Call("assign", Arg(Len(s), 0, 0, s), assign(chars, Ext(s), Len(s)), <<>>)

\* assign(const_pointer s): the length is found by Traits::length.
AssignCStr(s) ==
  LET mem == s \o <<0>>
  IN  Call("assign_cstr", Arg(0, 0, 0, s),
           assign(chars, Ext(mem), traits_length(mem)), <<>>)

AssignFill(n, c, ndebug) ==
  Call("assign_fill", Arg(n, c, 0, <<>>), assign_fill(chars, n, c, ndebug), <<>>)

\* append(s, n) from memory outside the instance; the sequences tried are
\* those that fit and those one character too long.
AppendPtr(s) ==
  /\ Len(s) <= MaxSize - size(chars) + 1
  /\ Call("append", Arg(Len(s), 0, 0, s), append(chars, Ext(s), Len(s)), <<>>)

\* s.append(s) and s += s: append(str.data(), str.size()) with str = *this.
AppendSelf ==
  Call("append_self", Arg(size(chars), 0, 0, Range(chars)),
       append(chars, Self(0), size(chars)), <<>>)

AppendFill(n, c) == Call("append_fill", Arg(n, c, 0, <<>>), append_fill(chars, n, c), <<>>)

PushBack(c) == Call("push_back", Arg(1, c, 0, <<>>), push_back(chars, c), <<>>)

\* at(pos), read: ret is the character referred to.
At(pos) ==
  LET a == at(chars, pos)
  IN  Call("at", Arg(0, 0, pos, <<>>), R(chars, a.err),
           IF a.err = "none" THEN <<chars[a.ref]>> ELSE <<>>)

\* at(pos) = c
AtWrite(pos, c) ==
  LET a == at(chars, pos)
  IN  Call("at_write", Arg(0, c, pos, <<>>),
           R(IF a.err = "none" THEN [chars EXCEPT ![a.ref] = c] ELSE chars, a.err),
           <<>>)

\* operator[](pos) = c, within its contract pos < size().
IndexWrite(pos, c) ==
  /\ pos < size(chars)
  /\ Call("index_write", Arg(0, c, pos, <<>>), R([chars EXCEPT ![pos] = c], "none"), <<>>)

ConvertToString == Call("to_string", NoArg, R(chars, "none"), to_string(chars))

StreamOut == Call("stream_out", NoArg, R(chars, "none"), stream_out(chars))

Next ==
  \/ \E n \in SizeArgs, c \in Char : Resize(n, c)
  \/ \E n \in SizeArgs : Resize1(n)
  \/ Clear
  \/ \E s \in SeqsUpTo(MaxSize + 1) : AssignPtr(s)
  \/ \E s \in CStrsUpTo(MaxSize) : AssignCStr(s)
  \/ \E n \in SizeArgs, c \in Char, nd \in BOOLEAN : AssignFill(n, c, nd)
  \/ \E s \in SeqsUpTo(MaxSize + 1) : AppendPtr(s)
  \/ AppendSelf
  \/ \E n \in SizeArgs, c \in Char : AppendFill(n, c)
  \/ \E c \in Char : PushBack(c)
  \/ \E pos \in SizeArgs : At(pos)
  \/ \E pos \in SizeArgs, c \in Char : AtWrite(pos, c)
  \/ \E pos \in Index, c \in Char : IndexWrite(pos, c)
  \/ ConvertToString
  \/ StreamOut

Spec == Init /\ [][Next]_vars

\* ---- two instances (SpecPair, SpecView) --------------------------------
\* `pre` is not recorded by the calls below unless they say so.
NoPre == clear([i \in Index |-> 0])
\* Storage a new instance is constructed in.
Garbage == {[i \in Index |-> c] : c \in Char}

InitPair ==
  /\ chars \in Constructed
  /\ other \in Constructed
  /\ pre = NoPre
  /\ op = "init"
  /\ arg = NoArg
  /\ err = "none"
  /\ ret = <<>>

Inst(i) == IF i = 1 THEN chars ELSE other

\* A call on instance i (1 is chars, 2 is other).
PCall(i, name, r) ==
  /\ chars' = IF i = 1 THEN r.buf ELSE chars
  /\ other' = IF i = 2 THEN r.buf ELSE other
  /\ op' = name
  /\ arg' = NoArg
  /\ err' = r.err
  /\ ret' = <<>>
  /\ pre' = NoPre

PResize(i, n, c) == PCall(i, "call", resize(Inst(i), n, c))

PClear(i) == PCall(i, "call", R(clear(Inst(i)), "none"))

PAssign(i, s) == PCall(i, "call", assign(Inst(i), Ext(s), Len(s)))

PAssignFill(i, n, c) == PCall(i, "call", assign_fill(Inst(i), n, c, TRUE))

PAppend(i, s) ==
  /\ Len(s) <= MaxSize - size(Inst(i))
  /\ PCall(i, "call", append(Inst(i), Ext(s), Len(s)))

\* x.append(y) with y the other instance: append(y.data(), y.size()).
PAppendOther(i) ==
  /\ size(chars) + size(other) <= MaxSize
  /\ PCall(i, "call", append(Inst(i), Ext(Range(Inst(3 - i))), size(Inst(3 - i))))

PPushBack(i, c) ==
  /\ size(Inst(i)) < MaxSize
  /\ PCall(i, "call", push_back(Inst(i), c))

PAtWrite(i, pos, c) ==
  LET a == at(Inst(i), pos)
  IN  /\ pos < size(Inst(i))
      /\ PCall(i, "call",
            R(IF a.err = "none" THEN [Inst(i) EXCEPT ![a.ref] = c] ELSE Inst(i), a.err))

POpIndexWrite(i, pos, c) ==
  /\ pos < size(Inst(i))
  /\ PCall(i, "call", R([Inst(i) EXCEPT ![pos] = c], "none"))

\* swap(other): std::swap of the two arrays.
Swap ==
  /\ chars' = other
  /\ other' = chars
  /\ op' = "swap"
  /\ arg' = NoArg /\ err' = "none" /\ ret' = <<>> /\ pre' = NoPre

\* The defaulted copy assignment x = y copies the array.
CopyAssign(i) == PCall(i, "copy", R(Inst(3 - i), "none"))

\* The in-contract mutators act on chars; swap and copy assignment carry
\* every value they produce to other as well.
NextPair ==
  \/ \E n \in 0 .. MaxSize, c \in Char : PResize(1, n, c)
  \/ PClear(1)
  \/ \E s \in SeqsUpTo(MaxSize) : PAssign(1, s)
  \/ \E n \in 0 .. MaxSize, c \in Char : PAssignFill(1, n, c)
  \/ \E s \in SeqsUpTo(MaxSize) : PAppend(1, s)
  \/ \E i \in 1 .. 2 : PAppendOther(i)
  \/ \E c \in Char : PPushBack(1, c)
  \/ \E pos \in Index, c \in Char : PAtWrite(1, pos, c)
  \/ \E pos \in Index, c \in Char : POpIndexWrite(1, pos, c)
  \/ Swap
  \/ \E i \in 1 .. 2 : CopyAssign(i)

SpecPair == InitPair /\ [][NextPair]_vars

\* A call that reads both instances and changes at most chars.
VCall(name, a, r, v, p) ==
  /\ chars' = r.buf
  /\ op' = name
  /\ arg' = a
  /\ err' = r.err
  /\ ret' = v
  /\ pre' = p
  /\ UNCHANGED other

\* Offsets and counts tried on a view of len characters: those within it,
\* one past it, and npos.
PosArgs(len) == (0 .. (len + 1)) \cup {npos}
CountArgs(len, pos) == (0 .. (IF pos <= len THEN len - pos + 1 ELSE 0)) \cup {npos}

\* chars.assign(other, pos, n); the previous buffer is recorded for the
\* failing calls.
AssignFrom(pos, n) ==
  LET r == assign_sub(chars, other, pos, n)
  IN  VCall("assign_from", Arg(n, 0, pos, <<>>), r, <<>>,
            IF r.err = "none" THEN NoPre ELSE chars)

\* basic_inplace_string{other, pos, n}, built in the storage g: when substr
\* throws no instance is constructed and chars stays what it was.
ConstructFrom(pos, n, g) ==
  LET r == assign_sub(g, other, pos, n)
  IN  VCall("construct_from", Arg(n, 0, pos, <<>>),
            IF r.err = "none" THEN r ELSE R(chars, r.err), <<>>, NoPre)

Relations == {"eq", "ne", "lt", "le", "gt", "ge"}
Relational(rel, lhs, rhs) ==
  CASE rel = "eq" -> operator_eq(lhs, rhs)
    [] rel = "ne" -> operator_ne(lhs, rhs)
    [] rel = "lt" -> operator_lt(lhs, rhs)
    [] rel = "le" -> operator_le(lhs, rhs)
    [] rel = "gt" -> operator_gt(lhs, rhs)
    [] rel = "ge" -> operator_ge(lhs, rhs)

\* chars rel other
Compare(rel) ==
  VCall(rel, NoArg, R(chars, "none"), <<Relational(rel, chars, other)>>, NoPre)

\* chars == other.c_str() and chars < other.c_str(): the c-style string is
\* the memory of the other instance.
CompareCStrRhs(rel) ==
  VCall(rel \o "_cstr_rhs", NoArg, R(chars, "none"),
        <<IF rel = "eq" THEN operator_eq_cstr_rhs(chars, Memory(other))
                        ELSE operator_lt_cstr_rhs(chars, Memory(other))>>, NoPre)

\* other.c_str() == chars and other.c_str() < chars
CompareCStrLhs(rel) ==
  VCall(rel \o "_cstr_lhs", NoArg, R(chars, "none"),
        <<IF rel = "eq" THEN operator_eq_cstr_lhs(Memory(other), chars)
                        ELSE operator_lt_cstr_lhs(Memory(other), chars)>>, NoPre)

NextView ==
  \/ \E i \in 1 .. 2, n \in 0 .. MaxSize : PResize(i, n, 0)
  \/ \E i \in 1 .. 2, c \in Char : PPushBack(i, c)
  \/ \E rel \in Relations : Compare(rel)
  \/ \E rel \in {"eq", "lt"} : CompareCStrRhs(rel)
  \/ \E rel \in {"eq", "lt"} : CompareCStrLhs(rel)

SpecView == InitPair /\ [][NextView]_vars

\* Substrings of the other instance.
NextSub ==
  \/ \E n \in 0 .. MaxSize : PResize(2, n, 0)
  \/ \E c \in SeqChar : PPushBack(2, c)
  \/ \E pos \in PosArgs(size(other)) : \E n \in CountArgs(size(other), pos) :
       AssignFrom(pos, n)
  \/ \E pos \in PosArgs(size(other)) : \E n \in CountArgs(size(other), pos) :
       \E g \in Garbage : ConstructFrom(pos, n, g)

SpecSub == InitPair /\ [][NextSub]_vars

\* ---- properties of one instance (checked under Spec) --------------------
Appends == {"append", "append_self", "append_fill", "push_back"}
Resizes == {"resize", "resize1"}
FillChar == IF op = "resize1" THEN 0 ELSE arg.c
SamePrefix(a, b, n) == \A i \in 0 .. n - 1 : a[i] = b[i]

\* C2: resize(n, c) with n <= MaxSize succeeds and leaves size() = n, the
\* last slot holding MaxSize - n, the first min(L, n) characters as they
\* were and, when n > L, the fill character (zero for resize(n)) at every
\* position L .. n-1, L being the length before the call.
C2_ResizeInRange ==
  (op \in Resizes /\ arg.n <= MaxSize) =>
    /\ err = "none"
    /\ size(chars) = arg.n
    /\ chars[MaxSize] = MaxSize - arg.n
    /\ SamePrefix(chars, pre, Min(size(pre), arg.n))
    /\ \A i \in size(pre) .. arg.n - 1 : chars[i] = FillChar

\* A resize that grows a non-empty instance to the full capacity with a
\* non-zero fill character.
C2_Witness ==
  /\ op = "resize" /\ arg.n = MaxSize /\ arg.c # 0
  /\ size(pre) > 0 /\ size(pre) < MaxSize /\ err = "none"

\* C3: resize(n) and resize(n, c) with n > MaxSize fail with a length error
\* and leave every slot of the buffer as it was.
C3_ResizeTooLong ==
  (op \in Resizes /\ arg.n > MaxSize) => (err = "length_error" /\ chars = pre)

\* A failed resize of a non-empty instance, one past the capacity.
C3_Witness ==
  /\ op = "resize1" /\ arg.n = MaxSize + 1 /\ size(pre) > 0
  /\ err = "length_error"

\* C4: an append of k characters to an instance of length L with
\* L + k <= MaxSize yields length L + k and leaves the first L characters
\* unchanged.
C4_MonotonicAppend ==
  (op \in Appends /\ size(pre) + arg.n <= MaxSize) =>
    /\ err = "none"
    /\ size(chars) = size(pre) + arg.n
    /\ SamePrefix(chars, pre, size(pre))

\* A non-empty instance appended to itself.
C4_Witness ==
  /\ op = "append_self" /\ size(pre) >= 1 /\ err = "none"
  /\ size(chars) = 2 * size(pre)

\* C5: assign(s) with |s| <= MaxSize followed by to_string yields s,
\* whatever the instance held before.
C5_RoundTrip ==
  (op \in {"assign", "assign_cstr"} /\ Len(arg.s) <= MaxSize) =>
    (err = "none" /\ to_string(chars) = arg.s)

\* An assign of exactly MaxSize characters, a zero character among them,
\* over a non-empty instance.
C5_Witness ==
  /\ op = "assign" /\ Len(arg.s) = MaxSize /\ size(pre) > 0
  /\ \E i \in 1 .. Len(arg.s) : arg.s[i] = 0
  /\ err = "none"

\* C6: an append of k >= 1 characters to an instance of length L with
\* L + k > MaxSize does not return normally and leaves the instance, its
\* length included, as it was.
C6_NoSilentTruncation ==
  (op \in Appends /\ arg.n >= 1 /\ size(pre) + arg.n > MaxSize) =>
    (err # "none" /\ chars = pre)

\* C7: at(pos) fails with an out-of-range error exactly when pos >= size()
\* and then leaves the instance unchanged; for pos < size() it succeeds and
\* refers to the character at pos.
C7_CheckedIndexing ==
  (op \in {"at", "at_write"}) =>
    /\ (err = "out_of_range") <=> (arg.pos >= size(pre))
    /\ (err = "out_of_range") => (chars = pre)
    /\ (arg.pos < size(pre)) =>
         /\ err = "none"
         /\ (op = "at") => (ret = <<pre[arg.pos]>> /\ chars = pre)
         /\ (op = "at_write") => (chars = [pre EXCEPT ![arg.pos] = arg.c])

\* at(size()) failing on a completely full instance.
C7_Witness ==
  /\ op = "at" /\ size(pre) = MaxSize /\ arg.pos = MaxSize
  /\ err = "out_of_range"

\* C10: reading data() up to the first zero character, as a C-string
\* consumer and the stream output operator do, yields exactly the size()
\* characters of the instance.
C10_CStringIsContent ==
  /\ CStrRead(chars) = Range(chars)
  /\ (op = "stream_out") => (ret = Range(chars))

\* ---- properties of two instances ----------------------------------------
\* The first n characters of a buffer, as a sequence.
FirstChars(b, n) == [i \in 1 .. n |-> b[i - 1]]
Content(b) == FirstChars(b, MaxSize - b[MaxSize])
\* The null-terminated sequence that starts at the buffer's first slot.
FirstZero(b) == CHOOSE i \in Index : b[i] = 0 /\ \A j \in 0 .. i - 1 : b[j] # 0
CStrOf(b) == FirstChars(b, FirstZero(b))

WellFormed(b) ==
  /\ size(b) \in 0 .. MaxSize
  /\ b[size(b)] = 0
  /\ (size(b) = MaxSize) => (b[MaxSize] = 0 /\ MaxSize - size(b) = 0)

\* C1: in every state reached by in-contract operations 0 <= size() <=
\* MaxSize and buffer[size()] is the zero character; a full instance has its
\* terminator in the last slot, which then also encodes the remaining
\* capacity 0.
C1_Terminated == WellFormed(chars) /\ WellFormed(other)

\* A full instance after a swap with a non-empty one.
C1_Witness ==
  /\ op = "swap" /\ size(chars) = MaxSize /\ chars[MaxSize] = 0
  /\ size(other) > 0 /\ size(other) < MaxSize

Agree(s1, s2) == Len(s1) = Len(s2) /\ \A i \in 1 .. Len(s1) : s1[i] = s2[i]
\* s1 is lexicographically less than s2: they agree on the first k
\* characters and then s1 ends first or has the smaller character.
LexLess(s1, s2) ==
  \E k \in 0 .. Min(Len(s1), Len(s2)) :
    /\ \A i \in 1 .. k : s1[i] = s2[i]
    /\ \/ k = Len(s1) /\ k < Len(s2)
       \/ k < Len(s1) /\ k < Len(s2) /\ s1[k + 1] < s2[k + 1]
Expected(rel, s1, s2) ==
  CASE rel = "eq" -> Agree(s1, s2)
    [] rel = "ne" -> ~Agree(s1, s2)
    [] rel = "lt" -> LexLess(s1, s2)
    [] rel = "le" -> ~LexLess(s2, s1)
    [] rel = "gt" -> LexLess(s2, s1)
    [] rel = "ge" -> ~LexLess(s1, s2)

\* C8: the relational operators between two instances, and between an
\* instance and a null-terminated sequence, are functions of the first
\* size() characters of each operand only: == holds exactly when lengths
\* and characters agree, < is the lexicographic order in which a proper
\* prefix comes first.
C8_Relational ==
  /\ (op \in Relations) => (ret = <<Expected(op, Content(chars), Content(other))>>)
  /\ (op = "eq_cstr_rhs") => (ret = <<Agree(Content(chars), CStrOf(other))>>)
  /\ (op = "lt_cstr_rhs") => (ret = <<LexLess(Content(chars), CStrOf(other))>>)
  /\ (op = "eq_cstr_lhs") => (ret = <<Agree(CStrOf(other), Content(chars))>>)
  /\ (op = "lt_cstr_lhs") => (ret = <<LexLess(CStrOf(other), Content(chars))>>)

\* Two non-empty instances that compare equal while the slots beyond
\* size() differ.
C8_Witness ==
  /\ op = "eq" /\ ret = <<TRUE>>
  /\ size(chars) >= 1 /\ size(chars) < MaxSize - 1
  /\ chars # other

Substrings == {"assign_from", "construct_from"}
SubOf(s, pos, n) == SubSeq(s, pos + 1, pos + Min(n, Len(s) - pos))

\* C9: construction and assign from another instance with an offset pos
\* and a count n give the source's characters pos .. pos + min(n, len -
\* pos) - 1 for pos <= len and the empty sequence for pos > len.
C9_SubstringOrEmpty ==
  (op \in Substrings) =>
    /\ err = "none"
    /\ Content(chars) = IF arg.pos <= size(other)
                          THEN SubOf(Content(other), arg.pos, arg.n)
                          ELSE <<>>

\* C9 as amended: for pos <= len the result is the source's characters
\* pos .. pos + min(n, len - pos) - 1; for pos > len the call fails with an
\* out-of-range error, assign leaving the instance as it was.
C9_SubstringOrThrow ==
  (op \in Substrings) =>
    IF arg.pos <= size(other)
      THEN err = "none" /\ Content(chars) = SubOf(Content(other), arg.pos, arg.n)
      ELSE err = "out_of_range" /\ (op = "assign_from" => chars = pre)

\* An assign from the middle of the other instance whose count reaches past
\* its end.
C9_Witness ==
  /\ op = "assign_from" /\ err = "none"
  /\ arg.pos >= 1 /\ arg.pos < size(other)
  /\ arg.n > size(other) - arg.pos
  /\ size(chars) = size(other) - arg.pos

\* ---- assign from a substring of the instance itself (SpecSelf) ----------
\* Traits::copy(data() + dst, data() + from, n) within one buffer, the
\* characters moved one at a time from the first to the last.
RECURSIVE CopyForward(_, _, _, _, _)
CopyForward(b, dst, from, n, k) ==
  IF k >= n THEN b
  ELSE CopyForward([b EXCEPT ![dst + k] = b[from + k]], dst, from, n, k + 1)

\* The same, from the last character to the first.
RECURSIVE CopyBackward(_, _, _, _)
CopyBackward(b, dst, from, k) ==
  IF k <= 0 THEN b
  ELSE CopyBackward([b EXCEPT ![dst + k - 1] = b[from + k - 1]], dst, from, k - 1)

\* Traits::copy on ranges of the same buffer.  The ranges overlap whenever
\* from < dst + n, which Traits::copy does not allow: the order in which
\* the characters are then moved is the implementation's.
CopyOrders == {"forward", "backward"}
traits_copy_within(b, dst, from, n, order) ==
  IF order = "forward" THEN CopyForward(b, dst, from, n, 0)
  ELSE CopyBackward(b, dst, from, n)

\* s.assign(s, pos, count): the view of s is cut by substr and handed to
\* assign(sv.data(), sv.size()), where sv.data() is data() + pos; size(n)
\* writes the terminator and the size slot, then the characters are copied.
assign_self_sub(b, pos, count, order) ==
  LET sv == substr(size(b), pos, count)
  IN  IF sv.err # "none" THEN R(b, sv.err)
      ELSE IF sv.len > MaxSize THEN R(b, "abort")
      ELSE R(traits_copy_within(set_size(b, sv.len).buf, 0, sv.off, sv.len, order),
             "none")

AssignSelf(pos, n, order) ==
  Call("assign_self", Arg(n, 0, pos, <<>>), assign_self_sub(chars, pos, n, order), <<>>)

NextSelf ==
  \/ \E c \in Char : PushBack(c)
  \/ \E n \in 0 .. MaxSize : Resize1(n)
  \/ \E pos \in PosArgs(size(chars)) : \E n \in CountArgs(size(chars), pos) :
       \E order \in CopyOrders : AssignSelf(pos, n, order)

SpecSelf == Init /\ [][NextSelf]_vars

\* C11: s.assign(s, pos, count) with pos <= size() leaves s holding the
\* characters it held at positions pos .. pos + min(count, size() - pos) - 1
\* before the call, and the terminator and size slot written before the
\* copy overwrite none of those characters.
C11_SelfSubstring ==
  (op = "assign_self" /\ arg.pos <= size(pre)) =>
    /\ err = "none"
    /\ Content(chars) = SubOf(Content(pre), arg.pos, arg.n)
    /\ \A i \in arg.pos .. arg.pos + Min(arg.n, size(pre) - arg.pos) - 1 :
         set_size(pre, Min(arg.n, size(pre) - arg.pos)).buf[i] = pre[i]

====
